---------------------------- MODULE Spec2Model ----------------------------
(***************************************************************************)
(* A model of the policy evaluation core of the Nomad autoscaler:          *)
(*   - the Action value and its transformations (package strategy),        *)
(*   - validation and parsing of a raw scaling policy (package nomad),     *)
(*   - the agent loop and the per-check evaluation (package agent).        *)
(* Three specifications share the module: SpecAction, SpecPolicy and Spec. *)
(***************************************************************************)
EXTENDS Integers, Sequences, FiniteSets, TLC

VARIABLES
    \* ---- package strategy: one Action value and the calls made on it
    act,            \* the Action (Count, Reason, Error, Meta)
    trace,          \* the calls applied to act so far, each with the Count it left
    panicked,       \* a call panicked (assignment to an entry of a nil map)
    \* ---- package nomad: one raw scaling policy document
    doc,            \* the api.ScalingPolicy handed to validate / parse
    vpc,            \* "new" | "validated" | "parsed"
    verr,           \* the violations validateHorizontalPolicy reported
    parsed,         \* the policy.Policy parsePolicy returned
    \* ---- package agent: Agent.Run and handlePolicyCheck
    pc,             \* where the agent goroutine is
    ctxDone,        \* ctx has been cancelled
    policyEvalCh,   \* the evaluations buffered in the channel
    sent,           \* evaluations the policy manager has sent so far
    policyEval,     \* Run: the Policy of the evaluation being handled
    ci,             \* Run: index of the check being handled
    actions,        \* Run: the actions collected for this evaluation
    currentStatus,  \* handlePolicyCheck: what Status returned
    results,        \* handlePolicyCheck: results.Actions as Run returned them
    ret,            \* handlePolicyCheck: the value returned
    calls,          \* handlePolicyCheck: the calls made on plugins and managers
    hung,           \* handlePolicyCheck: the plugin call at pc never returns
    dropped,        \* Run: evaluations received and dropped so far
    failedChecks,   \* Run: the checks of this evaluation that failed
    stopCalls       \* stop: the calls it has made

actionVars == <<act, trace, panicked>>
policyVars == <<doc, vpc, verr, parsed>>
checkVars == <<currentStatus, results, ret, calls>>
runVars == <<hung, dropped, failedChecks, stopCalls>>
agentVars == <<pc, ctxDone, policyEvalCh, sent, policyEval, ci, actions,
               currentStatus, results, ret, calls, hung, dropped, failedChecks,
               stopCalls>>
vars == <<act, trace, panicked, doc, vpc, verr, parsed, pc, ctxDone,
          policyEvalCh, sent, policyEval, ci, actions, currentStatus, results,
          ret, calls,
          hung, dropped, failedChecks, stopCalls>>

-----------------------------------------------------------------------------
(* Bounds of the model.                                                    *)

MaxCount == 3       \* Action.Count starts in -1 .. MaxCount
MaxLimit == 2       \* CapCount's min and max are drawn from 0 .. MaxLimit
MaxOps == 2         \* calls applied to one Action

-----------------------------------------------------------------------------
(* package strategy: the Action model.                                     *)

metaKeyDryRun == "nomad_autoscaler.dry_run"
metaKeyDryRunCount == "nomad_autoscaler.dry_run.count"
metaKeyCountCapped == "nomad_autoscaler.count.capped"
metaKeyCountOriginal == "nomad_autoscaler.count.original"
metaKeyReasonHistory == "nomad_autoscaler.reason_history"

MetaValueDryRunCount == -1

\* A map[string]interface{}: nil, or a map kv from its keys to their values.
NilMeta == [nil |-> TRUE, kv |-> <<>>]
EmptyMeta == [nil |-> FALSE, kv |-> <<>>]

\* m[k] = v on a non-nil map.
MetaPut(m, k, v) ==
    [nil |-> FALSE,
     kv |-> [x \in (DOMAIN m.kv) \cup {k} |-> IF x = k THEN v ELSE m.kv[x]]]

MetaHas(m, k) == ~m.nil /\ k \in DOMAIN m.kv

Action(count, reason, meta) ==
    [Count |-> count, Reason |-> reason, Error |-> FALSE, Meta |-> meta]

\* Canonicalize ensures Action has proper default values.
Canonicalize(a) ==
    IF a.Meta.nil THEN [a EXCEPT !.Meta = EmptyMeta] ELSE a

\* SetDryRun writes to a.Meta first: it panics on a nil map.
SetDryRunPanics(a) == a.Meta.nil

SetDryRun(a) ==
    [a EXCEPT !.Meta = MetaPut(MetaPut(a.Meta, metaKeyDryRun, TRUE),
                               metaKeyDryRunCount, a.Count),
              !.Count = MetaValueDryRunCount]

\* pushReason with the superseded Reason put in front of the history.
pushReasonPrepend(a, r) ==
    LET history == IF MetaHas(a.Meta, metaKeyReasonHistory)
                   THEN a.Meta.kv[metaKeyReasonHistory]
                   ELSE <<>>
        prepended == IF a.Reason # "" THEN <<a.Reason>> \o history ELSE history
    IN [a EXCEPT !.Meta = MetaPut(a.Meta, metaKeyReasonHistory, prepended),
                 !.Reason = r]

pushReasonPanics(a) == a.Meta.nil

\* pushReason updates the Reason value and stores previous Reason into Meta.
pushReason(a, r) ==
    LET history == IF MetaHas(a.Meta, metaKeyReasonHistory)
                   THEN a.Meta.kv[metaKeyReasonHistory]
                   ELSE <<>>
        appended == IF a.Reason # "" THEN Append(history, a.Reason) ELSE history
    IN [a EXCEPT !.Meta = MetaPut(a.Meta, metaKeyReasonHistory, appended),
                 !.Reason = r]

\* CapCount with the roles of min and max exchanged.
CappedCountSwapped(count, min, max) ==
    IF count < max THEN max ELSE IF count > min THEN min ELSE count

\* newCount of CapCount: the clamp as the code writes it.
CappedCount(count, min, max) ==
    IF count < min THEN min ELSE IF count > max THEN max ELSE count

CapReason(old, new) ==
    "capped count from " \o ToString(old) \o " to " \o ToString(new)
        \o " to stay within limits"

\* CapCount writes to a.Meta when the clamp changes Count: it panics on a nil map.
CapCountPanics(a, min, max) ==
    /\ a.Count # MetaValueDryRunCount
    /\ CappedCount(a.Count, min, max) # a.Count
    /\ a.Meta.nil

\* CapCount without the test for the dry-run sentinel.
CapCountNoSentinelTest(a, min, max) ==
    LET oldCount == a.Count
        newCount == CappedCount(a.Count, min, max)
    IN IF newCount # oldCount
       THEN LET m1 == MetaPut(a.Meta, metaKeyCountCapped, TRUE)
                m2 == MetaPut(m1, metaKeyCountOriginal, oldCount)
                a2 == pushReason([a EXCEPT !.Meta = m2],
                                 CapReason(oldCount, newCount))
            IN [a2 EXCEPT !.Count = newCount]
       ELSE a

\* CapCount assigning Count before it records the original count.
CapCountOriginalAfter(a, min, max) ==
    IF a.Count = MetaValueDryRunCount THEN a
    ELSE LET oldCount == a.Count
             newCount == CappedCount(a.Count, min, max)
         IN IF newCount # oldCount
            THEN LET m1 == MetaPut(a.Meta, metaKeyCountCapped, TRUE)
                     m2 == MetaPut(m1, metaKeyCountOriginal, newCount)
                     a2 == pushReason([a EXCEPT !.Meta = m2],
                                      CapReason(oldCount, newCount))
                 IN [a2 EXCEPT !.Count = newCount]
            ELSE a

CapCount(a, min, max) ==
    IF a.Count = MetaValueDryRunCount THEN a
    ELSE LET oldCount == a.Count
             newCount == CappedCount(a.Count, min, max)
         IN IF newCount # oldCount
            THEN LET m1 == MetaPut(a.Meta, metaKeyCountCapped, TRUE)
                     m2 == MetaPut(m1, metaKeyCountOriginal, oldCount)
                     a2 == pushReason([a EXCEPT !.Meta = m2],
                                      CapReason(oldCount, newCount))
                 IN [a2 EXCEPT !.Count = newCount]
            ELSE a

-----------------------------------------------------------------------------
(* package nomad: raw values (interface{}) of a scaling policy document.   *)

MaxInt == 2         \* Min and Max of a document are drawn from -MaxInt .. MaxInt

\* An interface{} value carries its dynamic type; s is a scalar's %v form.
Nil == [t |-> "nil"]
Str(s) == [t |-> "string", s |-> s]
Num(s) == [t |-> "int", s |-> s]
List(l) == [t |-> "list", l |-> l]
Map(m) == [t |-> "map", m |-> m]

\* m[k] of a map[string]interface{}; a nil map and a missing key give nil.
Lookup(mv, k) == IF mv.t = "map" /\ k \in DOMAIN mv.m THEN mv.m[k] ELSE Nil

\* _, ok := m[k]
HasKey(mv, k) == mv.t = "map" /\ k \in DOMAIN mv.m

\* s, _ := v.(string)
AsString(v) == IF v.t = "string" THEN v.s ELSE ""

\* fmt.Sprintf("%v", v) of a scalar
Sprintv(v) == IF v.t \in {"string", "int"} THEN v.s ELSE "<nil>"

\* A map[string]string: nil, or a map kv.
NilMap == [nil |-> TRUE, kv |-> <<>>]

\* A *int64: <<>> is nil, <<n>> points to n.
NilPtr == <<>>
Ptr(n) == <<n>>

keyChecks == "check"
keyQuery == "query"
keySource == "source"
keyStrategy == "strategy"
keyTarget == "target"

-----------------------------------------------------------------------------
(* package nomad: validateHorizontalPolicy.                                *)

errMinMissing == "scaling.min is missing"
errMaxMissing == "scaling.max is missing"
errMinNegative == "scaling.min can't be negative"
errMinAboveMax == "scaling.min must be smaller than scaling.max"
errMaxNegative == "scaling.max can't be negative"

\* The Min/Max rules without the else branches: a missing Min does not skip
\* the test for a missing Max.
MinMaxViolationsNoSkip(policy) ==
    (IF policy.Min = NilPtr THEN {errMinMissing} ELSE {})
        \cup (IF policy.Max = NilPtr THEN {errMaxMissing} ELSE {})
        \cup (IF policy.Min # NilPtr /\ policy.Min[1] < 0
              THEN {errMinNegative} ELSE {})
        \cup (IF policy.Min # NilPtr /\ policy.Max # NilPtr
                    /\ policy.Min[1] > policy.Max[1]
              THEN {errMinAboveMax} ELSE {})
        \cup (IF policy.Max # NilPtr /\ policy.Max[1] < 0
              THEN {errMaxNegative} ELSE {})

\* The Min/Max rules with the three comparisons chained by else, so that the
\* first one found hides the others.
MinMaxViolationsFirstOnly(policy) ==
    IF policy.Min = NilPtr THEN {errMinMissing}
    ELSE IF policy.Max = NilPtr THEN {errMaxMissing}
    ELSE IF policy.Min[1] < 0 THEN {errMinNegative}
    ELSE IF policy.Min[1] > policy.Max[1] THEN {errMinAboveMax}
    ELSE IF policy.Max[1] < 0 THEN {errMaxNegative}
    ELSE {}

\* Validate Min and Max values: the members appended to the multierror.
MinMaxViolations(policy) ==
    IF policy.Min = NilPtr THEN {errMinMissing}
    ELSE IF policy.Max = NilPtr THEN {errMaxMissing}
    ELSE LET min == policy.Min[1]
         IN  (IF min < 0 THEN {errMinNegative} ELSE {})
             \cup (IF min > policy.Max[1] THEN {errMinAboveMax} ELSE {})
             \cup (IF policy.Max[1] < 0 THEN {errMaxNegative} ELSE {})

\* A check validator that accepts every check.
validateCheckAcceptAll(c, path) == {}

\* Query key must exist.
validateCheckHorizontal(c, path) ==
    IF ~HasKey(c, keyQuery) THEN {path \o "." \o keyQuery \o " is missing"} ELSE {}

\* A block is a list of exactly one map.
IsBlock(v) == v.t = "list" /\ Len(v.l) = 1 /\ v.l[1].t = "map"

\* Every label of the map must hold a block, which the check validator
\* inspects.
validateLabeledBlocks(in, path) ==
    UNION {IF IsBlock(in.m[k])
           THEN validateCheckHorizontal(in.m[k].l[1], path \o "[" \o k \o "]")
           ELSE {path \o "[" \o k \o "] must be a block"} : k \in DOMAIN in.m}

validateChecksHorizontal(in, path) == validateLabeledBlocks(in, path)

\* The check collection must be a list of maps of labeled blocks, holding at
\* least one labeled block.
validateBlocks(in, path) ==
    IF in.t # "list" THEN {path \o " must be a list"}
    ELSE LET elems == {in.l[i] : i \in 1 .. Len(in.l)}
             labeled == {e \in elems : e.t = "map" /\ DOMAIN e.m # {}}
         IN  (IF labeled = {} THEN {path \o " expected at least 1 block"} ELSE {})
             \cup UNION {IF e.t = "map"
                         THEN validateChecksHorizontal(e, path)
                         ELSE {path \o " must hold maps"} : e \in elems}

validateHorizontalPolicy(policy) ==
    MinMaxViolations(policy)
        \cup validateBlocks(Lookup(policy.Policy, keyChecks),
                            "scaling.policy." \o keyChecks)

-----------------------------------------------------------------------------
(* package nomad: parsePolicy.                                             *)

\* parseBlock: the map of a block, nil for any other shape.
parseBlock(block) == IF IsBlock(block) THEN block.l[1] ELSE Nil

\* The overlay with a key already set keeping its value.
OverlayKeepExisting(kv, configMap) ==
    [k \in (DOMAIN kv) \cup (DOMAIN configMap.m) |->
        IF k \in DOMAIN kv THEN kv[k] ELSE Sprintv(configMap.m[k])]

\* for k, v := range configMap { configMapString[k] = fmt.Sprintf("%v", v) }
Overlay(kv, configMap) ==
    [k \in (DOMAIN kv) \cup (DOMAIN configMap.m) |->
        IF k \in DOMAIN configMap.m THEN Sprintv(configMap.m[k]) ELSE kv[k]]

NilStrategy == [nil |-> TRUE]

parseStrategy(s) ==
    IF s = Nil THEN NilStrategy
    ELSE LET strategyMap == parseBlock(s)
         IN IF strategyMap = Nil THEN NilStrategy
            ELSE LET configMap == parseBlock(Lookup(strategyMap, "config"))
                 IN [nil |-> FALSE,
                     Name |-> AsString(Lookup(strategyMap, "name")),
                     Config |-> IF configMap # Nil
                                THEN [nil |-> FALSE, kv |-> Overlay(<<>>, configMap)]
                                ELSE NilMap]

NilTarget == [nil |-> TRUE]

parseTarget(targetBlock, targetAttr) ==
    LET targetMap == parseBlock(targetBlock)
    IN IF targetMap = Nil /\ targetAttr.nil THEN NilTarget
       ELSE LET configMap == parseBlock(Lookup(targetMap, "config"))
            IN [nil |-> FALSE,
                Name |-> AsString(Lookup(targetMap, "name")),
                Config |-> [nil |-> FALSE,
                            kv |-> IF configMap # Nil
                                   THEN Overlay(targetAttr.kv, configMap)
                                   ELSE targetAttr.kv]]

NilCheck == [nil |-> TRUE]

parseCheck(c) ==
    IF c = Nil THEN NilCheck
    ELSE LET checkMap == parseBlock(c)
         IN IF checkMap = Nil THEN NilCheck
            ELSE [nil |-> FALSE,
                  Name |-> "",
                  Source |-> AsString(Lookup(checkMap, keySource)),
                  Query |-> AsString(Lookup(checkMap, keyQuery)),
                  Strategy |-> parseStrategy(Lookup(checkMap, keyStrategy))]

\* The checks of one map of labeled blocks, in each order in which range may
\* visit the keys of a Go map.
parseChecksOfMap(checkMap) ==
    LET kept == {k \in DOMAIN checkMap.m : parseCheck(checkMap.m[k]) # NilCheck}
        orders == {o \in [1 .. Cardinality(kept) -> kept] :
                       \A i, j \in DOMAIN o : o[i] = o[j] => i = j}
    IN {[i \in DOMAIN o |-> [parseCheck(checkMap.m[o[i]]) EXCEPT !.Name = o[i]]]
          : o \in orders}

RECURSIVE parseChecksOfList(_)
parseChecksOfList(l) ==
    IF l = <<>> THEN {<<>>}
    ELSE LET first == IF Head(l).t = "map" THEN parseChecksOfMap(Head(l)) ELSE {<<>>}
         IN {f \o r : f \in first, r \in parseChecksOfList(Tail(l))}

\* parseChecks: every slice of checks the call can return.
parseChecks(cs) ==
    IF cs = Nil THEN {<<>>}
    ELSE IF cs.t # "list" THEN {<<>>}
    ELSE parseChecksOfList(cs.l)

\* parsePolicy: every policy.Policy the call can return (Max is copied as it
\* is, a missing Max being the zero value; Enabled defaults to true).
parsePolicy(p) ==
    {[ID |-> p.ID,
      Min |-> IF p.Min # NilPtr THEN p.Min[1] ELSE 0,
      Max |-> IF p.Max # NilPtr THEN p.Max[1] ELSE 0,
      Enabled |-> TRUE,
      Target |-> parseTarget(Lookup(p.Policy, keyTarget), p.Target),
      Checks |-> checks] : checks \in parseChecks(Lookup(p.Policy, keyChecks))}

-----------------------------------------------------------------------------
(* Each specification leaves the state of the other two at rest.           *)

IdleAction ==
    /\ act = Action(0, "", NilMeta)
    /\ trace = <<>>
    /\ panicked = FALSE

IdlePolicy ==
    /\ doc = <<>>
    /\ vpc = "idle"
    /\ verr = {}
    /\ parsed = <<>>

IdleAgent ==
    /\ pc = "idle"
    /\ ctxDone = FALSE
    /\ policyEvalCh = <<>>
    /\ sent = 0
    /\ policyEval = <<>>
    /\ ci = 0
    /\ actions = <<>>
    /\ currentStatus = <<>>
    /\ results = <<>>
    /\ ret = <<>>
    /\ calls = <<>>
    /\ hung = FALSE
    /\ dropped = 0
    /\ failedChecks = {}
    /\ stopCalls = <<>>

-----------------------------------------------------------------------------
(* SpecPolicy: one raw document is validated, then parsed.                 *)

\* A key whose value is Absent is left out of the map.
Absent == [t |-> "absent"]
MkMap(f) == Map([k \in {x \in DOMAIN f : f[x] # Absent} |-> f[k]])

Block(m) == List(<<m>>)

StrategyBlocks ==
    {Absent,
     Block(Map([name |-> Str("target-value"),
                config |-> Block(Map([target |-> Num("20")]))]))}

CheckMaps ==
    {MkMap([query |-> q, source |-> Str("prometheus"), strategy |-> st]) :
        q \in {Absent, Str(""), Str("avg_cpu"), Num("5")}, st \in StrategyBlocks}

\* What a check label can hold: a block, or a value of another shape.
CheckValues == {Block(m) : m \in CheckMaps} \cup {List(<<>>), Str("avg_cpu")}

CheckCollections ==
    {Absent, Str("avg_cpu"), List(<<>>)}
        \cup {List(<<Map([c1 |-> v])>>) : v \in CheckValues}
        \cup {List(<<Map([c1 |-> v, c2 |-> w])>>) : v \in CheckValues, w \in CheckValues}

TargetBlocks ==
    {Absent,
     Block(Map([name |-> Str("nomad"),
                config |-> Block(Map([Group |-> Str("web"), Count |-> Num("3")]))]))}

TargetAttrs == {NilMap, [nil |-> FALSE, kv |-> [Job |-> "example", Group |-> "cache"]]}

Pointers == {NilPtr} \cup {Ptr(n) : n \in (0 - MaxInt) .. MaxInt}

RawPolicies ==
    {[ID |-> "policy-1", Min |-> min, Max |-> max,
      Policy |-> MkMap([check |-> cs, target |-> tb]),
      Target |-> ta] :
        min \in Pointers, max \in Pointers, cs \in CheckCollections,
        tb \in TargetBlocks, ta \in TargetAttrs}

InitPolicy ==
    /\ doc \in RawPolicies
    /\ vpc = "new"
    /\ verr = {}
    /\ parsed = <<>>
    /\ IdleAction
    /\ IdleAgent

Validate ==
    /\ vpc = "new"
    /\ verr' = validateHorizontalPolicy(doc)
    /\ vpc' = "validated"
    /\ UNCHANGED <<doc, parsed>>
    /\ UNCHANGED <<actionVars, agentVars>>

Parse ==
    /\ vpc = "validated"
    /\ parsed' \in parsePolicy(doc)
    /\ vpc' = "parsed"
    /\ UNCHANGED <<doc, verr>>
    /\ UNCHANGED <<actionVars, agentVars>>

NextPolicy == Validate \/ Parse

SpecPolicy == InitPolicy /\ [][NextPolicy]_vars

-----------------------------------------------------------------------------
(* SpecAction: calls on one Action value.                                  *)

Limits == 0 .. MaxLimit

\* One completed call: its arguments, the Action before and after it, and
\* the Count it left.
Call(op, min, max, r, before, after) ==
    [op |-> op, min |-> min, max |-> max, r |-> r, before |-> before,
     after |-> after, count |-> after.Count]

\* The reasons pushReason is called with.
Reasons == {"", "first", "second"}

InitAction ==
    /\ act \in {Action(c, r, m) : c \in MetaValueDryRunCount .. MaxCount,
                                  r \in {"", "scale"},
                                  m \in {NilMeta, EmptyMeta}}
    /\ trace = <<>>
    /\ panicked = FALSE
    /\ IdlePolicy
    /\ IdleAgent

CanCall == ~panicked /\ Len(trace) < MaxOps

DoCanonicalize ==
    /\ CanCall
    /\ act' = Canonicalize(act)
    /\ trace' = Append(trace, Call("Canonicalize", 0, 0, "", act, act'))
    /\ UNCHANGED <<panicked>>
    /\ UNCHANGED <<policyVars, agentVars>>

DoSetDryRun ==
    /\ CanCall
    /\ IF SetDryRunPanics(act)
       THEN /\ panicked' = TRUE
            /\ UNCHANGED <<act, trace>>
       ELSE /\ act' = SetDryRun(act)
            /\ trace' = Append(trace, Call("SetDryRun", 0, 0, "", act, act'))
            /\ UNCHANGED <<panicked>>
    /\ UNCHANGED <<policyVars, agentVars>>

DoCapCount ==
    /\ CanCall
    /\ \E min \in Limits, max \in Limits :
        IF CapCountPanics(act, min, max)
        THEN /\ panicked' = TRUE
             /\ UNCHANGED <<act, trace>>
        ELSE /\ act' = CapCount(act, min, max)
             /\ trace' = Append(trace, Call("CapCount", min, max, "", act, act'))
             /\ UNCHANGED <<panicked>>
    /\ UNCHANGED <<policyVars, agentVars>>

\* pushReason writes a.Meta[metaKeyReasonHistory]: it panics on a nil map,
\* before Reason is assigned.
DoPushReason ==
    /\ CanCall
    /\ \E r \in Reasons :
        IF pushReasonPanics(act)
        THEN /\ panicked' = TRUE
             /\ UNCHANGED <<act, trace>>
        ELSE /\ act' = pushReason(act, r)
             /\ trace' = Append(trace, Call("pushReason", 0, 0, r, act, act'))
             /\ UNCHANGED <<panicked>>
    /\ UNCHANGED <<policyVars, agentVars>>

NextAction == DoCanonicalize \/ DoSetDryRun \/ DoCapCount \/ DoPushReason

SpecAction == InitAction /\ [][NextAction]_vars

-----------------------------------------------------------------------------
(* package agent: handlePolicyCheck.                                       *)

MaxTargetCount == 3 \* Status and the strategy report counts in 0 .. MaxTargetCount
PolicyMin == 1      \* Min of the policies under evaluation
PolicyMax == 2      \* Max of the policies under evaluation
MaxEvals == 2       \* evaluations the policy manager sends
ChanCap == 10       \* make(chan *policy.Evaluation, 10)

Counts == 0 .. MaxTargetCount

\* A *policy.Policy and a *policy.Evaluation: nil, or pointing to a value.
NilPolicy == [nil |-> TRUE]
PolicyPtr(p) == [nil |-> FALSE, v |-> p]
NilEval == [nil |-> TRUE]
Evaluation(p) == [nil |-> FALSE, Policy |-> p]

\* One call made by handlePolicyCheck and whether it returned without error.
PluginCall(name, ok) == [call |-> name, ok |-> ok]

\* The order of the calls in handlePolicyCheck.
CallOrder ==
    <<"Dispense(target)", "Dispense(apm)", "Dispense(strategy)",
      "Status", "Query", "Run">>

\* logger.With(... p.Target.Name ... c.Strategy.Name ...) dereferences both
\* pointers.
EntryPanics(p, c) == p.Target.nil \/ c.Strategy.nil

\* Status aborts the check on an error only.
StatusAbortsOnErrorOnly(st) == st.err

\* Status aborts the check on an error and on a target that is not ready.
StatusAborts(st) == st.err \/ ~st.Ready

MinMaxReason(count, word, limit) ==
    "current count (" \o ToString(count) \o ") " \o word \o " limit ("
        \o ToString(limit) \o ")"

\* The limits enforced with the two limits exchanged.
MinMaxActionsSwapped(count, p) ==
    IF count < p.Min
    THEN <<Action(p.Max, MinMaxReason(count, "below", p.Min), NilMeta)>>
    ELSE IF count > p.Max
    THEN <<Action(p.Min, MinMaxReason(count, "above", p.Max), NilMeta)>>
    ELSE <<>>

\* The action that brings the count back within [min, max], when the strategy
\* returned none; no action when the count is within the limits.
MinMaxActions(count, p) ==
    IF count < p.Min
    THEN <<Action(p.Min, MinMaxReason(count, "below", p.Min), NilMeta)>>
    ELSE IF count > p.Max
    THEN <<Action(p.Max, MinMaxReason(count, "above", p.Max), NilMeta)>>
    ELSE <<>>

\* What handlePolicyCheck returns once Run has succeeded: results.Actions,
\* with the limit action appended when the strategy returned none.
ReturnedActions(runActions, count, p) ==
    IF Len(runActions) = 0 THEN MinMaxActions(count, p) ELSE runActions

-----------------------------------------------------------------------------
(* Spec: the agent loop, the policy manager feeding it, and the plugins.   *)

DryRunConfig == [nil |-> FALSE, kv |-> ("dry-run" :> "true" @@ "Job" :> "example")]
PlainConfig == [nil |-> FALSE, kv |-> ("Job" :> "example")]

Strategy == [nil |-> FALSE, Name |-> "target-value", Config |-> NilMap]

Check(name, strategy) ==
    [nil |-> FALSE, Name |-> name, Source |-> "prometheus", Query |-> "avg_cpu",
     Strategy |-> strategy]

Policy(config, checks) ==
    [ID |-> "policy-1", Min |-> PolicyMin, Max |-> PolicyMax, Enabled |-> TRUE,
     Target |-> [nil |-> FALSE, Name |-> "nomad", Config |-> config],
     Checks |-> checks]

\* The policies the manager evaluates, as parsePolicy builds them: with one
\* check or two, with a dry-run target, without checks, with a check without
\* strategy block (Strategy nil), and without target block and attributes
\* (Target nil).
Policies ==
    {Policy(PlainConfig, <<Check("c1", Strategy)>>),
     Policy(DryRunConfig, <<Check("c1", Strategy)>>),
     Policy(PlainConfig, <<Check("c1", Strategy), Check("c2", Strategy)>>),
     Policy(PlainConfig, <<>>),
     Policy(PlainConfig, <<Check("c1", NilStrategy)>>),
     [Policy(PlainConfig, <<Check("c1", Strategy)>>) EXCEPT !.Target = NilTarget]}

Evaluations ==
    {NilEval, Evaluation(NilPolicy)}
        \cup {Evaluation(PolicyPtr(p)) : p \in Policies}

\* What Status can return.
StatusResults ==
    {[err |-> TRUE, Count |-> 0, Ready |-> FALSE]}
        \cup {[err |-> FALSE, Count |-> c, Ready |-> r] : c \in Counts, r \in BOOLEAN}

StrategyAction(c, meta) == Action(c, "scaling to target value", meta)

\* What a strategy's Run can return as Actions: none, one action, or two.
RunResults ==
    {<<>>}
        \cup {<<StrategyAction(c, m)>> : c \in Counts, m \in {NilMeta, EmptyMeta}}
        \cup {<<StrategyAction(c, EmptyMeta), StrategyAction(MaxTargetCount - c, EmptyMeta)>> :
                 c \in Counts}

NoStatus == [err |-> FALSE, Count |-> 0, Ready |-> FALSE]

InitAgent ==
    /\ pc = "select"
    /\ ctxDone = FALSE
    /\ policyEvalCh = <<>>
    /\ sent = 0
    /\ policyEval = NilPolicy
    /\ ci = 0
    /\ actions = <<>>
    /\ currentStatus = NoStatus
    /\ results = <<>>
    /\ ret = <<>>
    /\ calls = <<>>
    /\ hung = FALSE
    /\ dropped = 0
    /\ failedChecks = {}
    /\ stopCalls = <<>>

Init == InitAgent /\ IdleAction /\ IdlePolicy

Rest == UNCHANGED <<actionVars, policyVars>>

\* The policy manager sends an evaluation, until the context is cancelled
\* (or a panic has ended the process).
ManagerSend ==
    /\ ~ctxDone
    /\ pc # "panic"
    /\ sent < MaxEvals
    /\ Len(policyEvalCh) < ChanCap
    /\ \E e \in Evaluations : policyEvalCh' = Append(policyEvalCh, e)
    /\ sent' = sent + 1
    /\ UNCHANGED <<pc, ctxDone, policyEval, ci, actions, checkVars, runVars>>
    /\ Rest

Cancel ==
    /\ ~ctxDone
    /\ ctxDone' = TRUE
    /\ UNCHANGED <<pc, policyEvalCh, sent, policyEval, ci, actions, checkVars, runVars>>
    /\ Rest

\* stop, deferred by Run: the health server was started and the plugins set
\* up before the loop, so both are stopped.
StopCalls == <<"healthServer.stop", "KillPlugins">>

\* case <-ctx.Done(): return nil, with the deferred stop run before Run is
\* left.
Shutdown ==
    /\ pc = "select"
    /\ ctxDone
    /\ pc' = "stopped"
    /\ stopCalls' = StopCalls
    /\ UNCHANGED <<ctxDone, policyEvalCh, sent, policyEval, ci, actions, checkVars>>
    /\ UNCHANGED <<hung, dropped, failedChecks>>
    /\ Rest

\* A panic unwinds Run: the deferred stop runs and the process ends.
Panic ==
    /\ pc' = "panic"
    /\ stopCalls' = StopCalls

\* The test that drops a nil evaluation only.
DroppedIfNilEvaluation(e) == e.nil

\* if policyEval == nil || policyEval.Policy == nil { continue }
Dropped(e) == e.nil \/ e.Policy.nil

\* case policyEval := <-policyEvalCh: a nil evaluation or policy is dropped;
\* otherwise the loop over the checks starts with no actions, and is over at
\* once for a policy without checks.  policyEval.Policy.Checks dereferences
\* both pointers.
Receive ==
    /\ pc = "select"
    /\ policyEvalCh # <<>>
    /\ policyEvalCh' = Tail(policyEvalCh)
    /\ LET e == Head(policyEvalCh)
       IN IF Dropped(e)
          THEN /\ dropped' = dropped + 1
               /\ UNCHANGED <<pc, policyEval, ci, stopCalls>>
          ELSE IF e.nil \/ e.Policy.nil
          THEN /\ Panic
               /\ UNCHANGED <<policyEval, ci, dropped>>
          ELSE IF Len(e.Policy.v.Checks) = 0
          THEN UNCHANGED <<pc, policyEval, ci, dropped, stopCalls>>
          ELSE /\ pc' = "Dispense(target)"
               /\ policyEval' = e.Policy
               /\ ci' = 1
               /\ UNCHANGED <<dropped, stopCalls>>
    /\ UNCHANGED <<ctxDone, sent, actions, checkVars, hung, failedChecks>>
    /\ Rest

InCheck(step) == pc = step /\ ~hung

\* handlePolicyCheck returns val.
Return(val) ==
    /\ ret' = val
    /\ pc' = "return"

Called(name, ok) == calls' = Append(calls, PluginCall(name, ok))

Frame ==
    /\ UNCHANGED <<ctxDone, policyEvalCh, sent, policyEval, ci, actions>>
    /\ UNCHANGED <<hung, dropped, failedChecks>>
    /\ Rest

DispenseTarget ==
    /\ InCheck("Dispense(target)")
    /\ IF EntryPanics(policyEval.v, policyEval.v.Checks[ci])
       THEN /\ Panic
            /\ UNCHANGED checkVars
       ELSE \E ok \in BOOLEAN :
            /\ Called("Dispense(target)", ok)
            /\ IF ok THEN pc' = "Dispense(apm)" /\ UNCHANGED ret ELSE Return(<<>>)
            /\ UNCHANGED <<currentStatus, results, stopCalls>>
    /\ Frame

DispenseAPM ==
    /\ InCheck("Dispense(apm)")
    /\ \E ok \in BOOLEAN :
        /\ Called("Dispense(apm)", ok)
        /\ IF ok THEN pc' = "Dispense(strategy)" /\ UNCHANGED ret ELSE Return(<<>>)
    /\ UNCHANGED <<currentStatus, results, stopCalls>>
    /\ Frame

DispenseStrategy ==
    /\ InCheck("Dispense(strategy)")
    /\ \E ok \in BOOLEAN :
        /\ Called("Dispense(strategy)", ok)
        /\ IF ok THEN pc' = "Status" /\ UNCHANGED ret ELSE Return(<<>>)
    /\ UNCHANGED <<currentStatus, results, stopCalls>>
    /\ Frame

Status ==
    /\ InCheck("Status")
    /\ \E st \in StatusResults :
        /\ Called("Status", ~st.err)
        /\ currentStatus' = st
        /\ IF StatusAborts(st) THEN Return(<<>>) ELSE pc' = "Query" /\ UNCHANGED ret
    /\ UNCHANGED <<results, stopCalls>>
    /\ Frame

Query ==
    /\ InCheck("Query")
    /\ \E ok \in BOOLEAN :
        /\ Called("Query", ok)
        /\ IF ok THEN pc' = "Run" /\ UNCHANGED ret ELSE Return(<<>>)
    /\ UNCHANGED <<currentStatus, results, stopCalls>>
    /\ Frame

\* strategyInst.Run(req) and the rest of handlePolicyCheck up to its return.
RunStrategy ==
    /\ InCheck("Run")
    /\ \/ /\ Called("Run", FALSE)
          /\ Return(<<>>)
          /\ UNCHANGED results
       \/ \E r \in RunResults :
          /\ Called("Run", TRUE)
          /\ results' = r
          /\ Return(ReturnedActions(r, currentStatus.Count, policyEval.v))
    /\ UNCHANGED <<currentStatus, stopCalls>>
    /\ Frame

\* The plugin call the check is about to make (Status, Query or Run) never
\* returns: handlePolicyCheck stays in it.
HungCalls == {"Status", "Query", "Run"}

PluginHangs ==
    /\ pc \in HungCalls
    /\ ~hung
    /\ hung' = TRUE
    /\ UNCHANGED <<pc, ctxDone, policyEvalCh, sent, policyEval, ci, actions>>
    /\ UNCHANGED <<checkVars, dropped, failedChecks, stopCalls>>
    /\ Rest

\* The check that returned made a call that failed, or found the target not
\* ready.
CheckFailed ==
    \/ \E i \in DOMAIN calls : ~calls[i].ok
    \/ \E i \in DOMAIN calls : calls[i].call = "Status" /\ ~currentStatus.Ready

\* The loop over the checks left at the first check that returns no action.
MoreChecksUnlessEmpty(i, checks) == i < Len(checks) /\ ret # <<>>

\* for _, c := range policyEval.Policy.Checks
MoreChecks(i, checks) == i < Len(checks)

\* actions = append(actions, a.handlePolicyCheck(...)...), then the next check
\* or, after the last one, the next select (the actions are dropped there).
NextCheck ==
    /\ InCheck("return")
    /\ IF MoreChecks(ci, policyEval.v.Checks)
       THEN /\ actions' = actions \o ret
            /\ ci' = ci + 1
            /\ pc' = "Dispense(target)"
            /\ failedChecks' = IF CheckFailed THEN failedChecks \cup {ci}
                                              ELSE failedChecks
            /\ UNCHANGED policyEval
       ELSE /\ actions' = <<>>
            /\ ci' = 0
            /\ pc' = "select"
            /\ failedChecks' = {}
            /\ policyEval' = NilPolicy
    /\ currentStatus' = NoStatus
    /\ results' = <<>>
    /\ ret' = <<>>
    /\ calls' = <<>>
    /\ UNCHANGED <<ctxDone, policyEvalCh, sent, hung, dropped, stopCalls>>
    /\ Rest

Next ==
    \/ ManagerSend
    \/ Cancel
    \/ Shutdown
    \/ Receive
    \/ DispenseTarget
    \/ DispenseAPM
    \/ DispenseStrategy
    \/ Status
    \/ Query
    \/ RunStrategy
    \/ PluginHangs
    \/ NextCheck

Spec == Init /\ [][Next]_vars

-----------------------------------------------------------------------------
(* Properties of the Action model.                                         *)

\* Two successive completed calls trace[i], trace[i+1] that are both
\* CapCount with the same bounds.
SameCapTwice(i) ==
    /\ i \in 1 .. Len(trace) - 1
    /\ trace[i].op = "CapCount"
    /\ trace[i + 1].op = "CapCount"
    /\ trace[i].min = trace[i + 1].min
    /\ trace[i].max = trace[i + 1].max

\* C10 (as stated): CapCount is idempotent for every action and every pair
\* of bounds (min, max): a second CapCount(min, max) right after the first
\* leaves the Count the first one left.
C10_IdempotentAnyBounds ==
    \A i \in 1 .. Len(trace) - 1 :
        SameCapTwice(i) => trace[i + 1].count = trace[i].count

\* C10 (amended): CapCount is idempotent for every action and every pair of
\* bounds with min <= max: a second CapCount(min, max) right after the first
\* leaves the Count the first one left.
C10_IdempotentOrderedBounds ==
    \A i \in 1 .. Len(trace) - 1 :
        (SameCapTwice(i) /\ trace[i].min <= trace[i].max)
            => trace[i + 1].count = trace[i].count

\* C10 witness: CapCount ran twice with the same ordered bounds on an action
\* whose Count the first call clamped.
C10_Witness ==
    /\ Len(trace) = 2
    /\ SameCapTwice(1)
    /\ trace[1].min <= trace[1].max
    /\ MetaHas(act.Meta, metaKeyCountCapped)
    /\ act.Count = trace[1].count

-----------------------------------------------------------------------------
(* Properties of validation and parsing.                                   *)

Validated == vpc \in {"validated", "parsed"}

\* The five Min/Max violations, and the three of them that compare values.
MinMaxErrors ==
    {errMinMissing, errMaxMissing, errMinNegative, errMinAboveMax, errMaxNegative}
OrderErrors == {errMinNegative, errMinAboveMax, errMaxNegative}

\* C7: for a document without Min, "min is missing" is the only Min/Max
\* violation reported (not "max is missing", even when Max is absent too, and
\* no negativity or ordering violation); for a document with Min and without
\* Max, "max is missing" is the only one.
C7_MissingBoundReportedAlone ==
    Validated =>
        /\ doc.Min = NilPtr => verr \cap MinMaxErrors = {errMinMissing}
        /\ (doc.Min # NilPtr /\ doc.Max = NilPtr)
              => verr \cap MinMaxErrors = {errMaxMissing}

\* C7 witness: a validated document in which both Min and Max are absent.
C7_Witness ==
    /\ Validated
    /\ doc.Min = NilPtr
    /\ doc.Max = NilPtr
    /\ errMinMissing \in verr

\* The subsets of the three comparing violations that validating the
\* document reports for some present (Min, Max), its other fields kept.
ReportableOrderErrors ==
    {validateHorizontalPolicy([doc EXCEPT !.Min = Ptr(mn), !.Max = Ptr(mx)])
        \cap OrderErrors : mn \in (0 - MaxInt) .. MaxInt, mx \in (0 - MaxInt) .. MaxInt}

\* C8 (as stated): with Min and Max present, each of the 8 subsets of the
\* three violations is reported, exactly, for some (Min, Max).
C8_EverySubsetReportable ==
    Validated => \A S \in SUBSET OrderErrors : S \in ReportableOrderErrors

\* C8 (amended): with Min and Max present, each of the three violations is
\* reported exactly when its own condition holds, whatever the other two do,
\* and the subsets reported for some (Min, Max) are the 6 subsets other than
\* {max negative} alone and {min negative, min above max} without max
\* negative.
C8_IndependentChecks ==
    Validated =>
        /\ (doc.Min # NilPtr /\ doc.Max # NilPtr) =>
              /\ errMinNegative \in verr <=> doc.Min[1] < 0
              /\ errMinAboveMax \in verr <=> doc.Min[1] > doc.Max[1]
              /\ errMaxNegative \in verr <=> doc.Max[1] < 0
        /\ ReportableOrderErrors =
              (SUBSET OrderErrors)
                  \ {{errMaxNegative}, {errMinNegative, errMinAboveMax}}

\* C8 witness: a validated document for which all three are reported together.
C8_Witness ==
    /\ Validated
    /\ doc.Min # NilPtr
    /\ doc.Max # NilPtr
    /\ OrderErrors \subseteq verr

\* The check block of the document that a parsed check was built from.
SourceBlock(name) ==
    LET cs == Lookup(doc.Policy, keyChecks) IN cs.l[1].m[name].l[1]

\* C9 (as stated): when validation returned no error, the parsed Policy has
\* Min <= Max (both being present) and every parsed Check has a non-empty
\* Query.
C9_ValidImpliesNonEmptyQuery ==
    (vpc = "parsed" /\ verr = {}) =>
        /\ (doc.Min # NilPtr /\ doc.Max # NilPtr) => parsed.Min <= parsed.Max
        /\ \A i \in DOMAIN parsed.Checks : parsed.Checks[i].Query # ""

\* C9 (amended): when validation returned no error, the parsed Policy has
\* Min <= Max (both being present) and every parsed Check comes from a block
\* of the document that has the query key:
\* its Query is the key's value when that is a string, and is empty when the
\* value is not a string.
C9_ValidImpliesQueryKey ==
    (vpc = "parsed" /\ verr = {}) =>
        /\ (doc.Min # NilPtr /\ doc.Max # NilPtr) => parsed.Min <= parsed.Max
        /\ \A i \in DOMAIN parsed.Checks :
              LET b == SourceBlock(parsed.Checks[i].Name)
              IN /\ HasKey(b, keyQuery)
                 /\ parsed.Checks[i].Query = AsString(b.m[keyQuery])

\* C9 witness: a valid document with two checks was parsed, one of them with
\* a non-empty query.
C9_Witness ==
    /\ vpc = "parsed"
    /\ verr = {}
    /\ Len(parsed.Checks) = 2
    /\ parsed.Min < parsed.Max
    /\ \E i \in DOMAIN parsed.Checks : parsed.Checks[i].Query # ""

-----------------------------------------------------------------------------
(* Properties of the per-check evaluation.                                 *)

AtReturn == pc = "return"

\* All three plugins were dispensed, Status reported a ready target, and
\* Query and Run succeeded.
AllSucceeded ==
    /\ Len(calls) = Len(CallOrder)
    /\ \A i \in DOMAIN calls : calls[i].ok
    /\ currentStatus.Ready

\* C1: when every step succeeded and the strategy returned no actions, the
\* check yields one action with Count = Min and a reason citing the count
\* below the limit if the current count is below Min, else one action with
\* Count = Max if it is above Max, else no action.
C1_LimitActionWhenStrategySilent ==
    (AtReturn /\ AllSucceeded /\ results = <<>>) =>
        LET c == currentStatus.Count
            p == policyEval.v
        IN IF c < p.Min
           THEN /\ Len(ret) = 1
                /\ ret[1].Count = p.Min
                /\ ret[1].Reason = MinMaxReason(c, "below", p.Min)
           ELSE IF c > p.Max
           THEN Len(ret) = 1 /\ ret[1].Count = p.Max
           ELSE ret = <<>>

\* C1 witness: a check returned the action raising a count below Min to Min.
C1_Witness ==
    /\ AtReturn
    /\ AllSucceeded
    /\ results = <<>>
    /\ currentStatus.Count < policyEval.v.Min
    /\ Len(ret) = 1
    /\ ret[1].Count = policyEval.v.Min

\* C2: the calls of a check are made in the order dispense target, dispense
\* APM, dispense strategy, Status, Query, Run; a call is followed by another
\* one only if it succeeded (and, for Status, reported the target ready); and
\* a check in which a step failed or the target was not ready yields no
\* action.
C2_OrderedStepsFirstFailureAborts ==
    /\ Len(calls) <= Len(CallOrder)
    /\ \A i \in DOMAIN calls : calls[i].call = CallOrder[i]
    /\ \A i \in 1 .. Len(calls) - 1 :
          /\ calls[i].ok
          /\ calls[i].call = "Status" => currentStatus.Ready
    /\ (AtReturn /\ ~AllSucceeded) => ret = <<>>

\* C2 witness: a check ended at a Status call that reported the target not
\* ready.
C2_Witness ==
    /\ AtReturn
    /\ Len(calls) = 4
    /\ calls[4].call = "Status"
    /\ calls[4].ok
    /\ ~currentStatus.Ready
    /\ ret = <<>>

\* C3: every action a check returns is canonicalized and capped: its Meta is
\* initialized, its Count is within [Min, Max] or is the dry-run sentinel, and
\* an action the strategy returned above Max has Count = Max, Meta[capped] =
\* true and Meta[original_count] = the strategy's count.
C3_ReturnedActionsCapped ==
    AtReturn =>
        \A i \in DOMAIN ret :
            LET p == policyEval.v IN
            /\ ~ret[i].Meta.nil
            /\ \/ ret[i].Count \in p.Min .. p.Max
               \/ ret[i].Count = MetaValueDryRunCount
            /\ (results # <<>> /\ results[i].Count > p.Max) =>
                  /\ ret[i].Count = p.Max
                  /\ MetaHas(ret[i].Meta, metaKeyCountCapped)
                  /\ ret[i].Meta.kv[metaKeyCountCapped] = TRUE
                  /\ MetaHas(ret[i].Meta, metaKeyCountOriginal)
                  /\ ret[i].Meta.kv[metaKeyCountOriginal] = results[i].Count

\* if val, ok := p.Target.Config["dry-run"]; ok && val == "true"
DryRunConfigured(p) ==
    /\ "dry-run" \in DOMAIN p.Target.Config.kv
    /\ p.Target.Config.kv["dry-run"] = "true"

\* The count of the i-th action of a check before it is capped and marked:
\* the strategy's, or that of the limit action.
ProducedCount(i) ==
    IF results # <<>> THEN results[i].Count
    ELSE IF currentStatus.Count < policyEval.v.Min THEN policyEval.v.Min
    ELSE policyEval.v.Max

\* Count clamped into [min, max].
Clamp(count, min, max) ==
    IF count < min THEN min ELSE IF count > max THEN max ELSE count

\* C4: when the target configuration has dry-run = "true", every action a
\* check returns is in dry-run form: Count is -1, Meta[dry_run] is true and
\* Meta[dry_run_count] is the capped count the action carried.
C4_ReturnedActionsDryRun ==
    (AtReturn /\ DryRunConfigured(policyEval.v)) =>
        \A i \in DOMAIN ret :
            /\ ret[i].Count = MetaValueDryRunCount
            /\ MetaHas(ret[i].Meta, metaKeyDryRun)
            /\ ret[i].Meta.kv[metaKeyDryRun] = TRUE
            /\ MetaHas(ret[i].Meta, metaKeyDryRunCount)
            /\ ret[i].Meta.kv[metaKeyDryRunCount]
                  = Clamp(ProducedCount(i), policyEval.v.Min, policyEval.v.Max)

\* The calls of the current check made to the named operation.
CallsTo(name) == {j \in DOMAIN calls : calls[j].call = name}

\* The actions of the check whose final count differs from the current count.
ActionsToApply == {i \in DOMAIN ret : ret[i].Count # currentStatus.Count}

\* C5: by the time a check returns, the target's Scale has been called once
\* for each of its actions whose final count differs from the current count,
\* and for no other action (a failing Scale not stopping the later ones).
C5_ScaleIffCountDiffers ==
    AtReturn => Cardinality(CallsTo("Scale")) = Cardinality(ActionsToApply)

\* C6: a check with an action to apply ends with that action's Scale having
\* failed or with the policy's cooldown enforced with the policy manager, and
\* the cooldown is enforced only after a Scale that succeeded.
C6_CooldownAfterSuccessfulScale ==
    AtReturn =>
        /\ ActionsToApply # {} =>
              \/ \E j \in CallsTo("Scale") : ~calls[j].ok
              \/ CallsTo("EnforceCooldown") # {}
        /\ CallsTo("EnforceCooldown") # {} =>
              \E j \in CallsTo("Scale") : calls[j].ok

-----------------------------------------------------------------------------
(* Further properties of the Action model.                                 *)

\* C11: CapCount on an action whose Count is the dry-run sentinel changes
\* nothing, whatever the bounds (Count, Reason and Meta, with its capped
\* flag, original count and reason history, are as before); so a CapCount
\* that comes after a SetDryRun leaves Count = -1.
C11_CapCountKeepsDryRun ==
    \A i \in DOMAIN trace :
        trace[i].op = "CapCount" =>
            /\ trace[i].before.Count = MetaValueDryRunCount
                  => trace[i].after = trace[i].before
            /\ (\E j \in 1 .. i - 1 : trace[j].op = "SetDryRun")
                  => trace[i].after.Count = MetaValueDryRunCount

\* C11 witness: CapCount with bounds that exclude -1 ran right after
\* SetDryRun on an action that carried a count.
C11_Witness ==
    /\ Len(trace) = 2
    /\ trace[1].op = "SetDryRun"
    /\ trace[1].before.Count > 0
    /\ trace[2].op = "CapCount"
    /\ trace[2].min > 0
    /\ act.Count = MetaValueDryRunCount
    /\ ~MetaHas(act.Meta, metaKeyCountCapped)

\* The trace holds completed calls of pushReason only, at least one.
OnlyPushes ==
    /\ trace # <<>>
    /\ \A i \in DOMAIN trace : trace[i].op = "pushReason"

\* The reasons pushed so far, in call order.
Pushed == [i \in DOMAIN trace |-> trace[i].r]

ReasonHistory(a) ==
    IF MetaHas(a.Meta, metaKeyReasonHistory)
    THEN a.Meta.kv[metaKeyReasonHistory]
    ELSE <<>>

NonEmpty(s) == SelectSeq(s, LAMBDA x : x # "")

OtherMeta(m) ==
    [k \in DOMAIN m.kv \ {metaKeyCountCapped, metaKeyCountOriginal,
                          metaKeyReasonHistory} |-> m.kv[k]]

\* What the i-th call, a CapCount, did to the Action it was called on.
CapCountEffect(i) ==
    LET c == trace[i]
        old == c.before.Count
        new == Clamp(old, c.min, c.max)
    IN /\ c.after.Count = new
       /\ IF new # old
          THEN /\ MetaHas(c.after.Meta, metaKeyCountCapped)
               /\ c.after.Meta.kv[metaKeyCountCapped] = TRUE
               /\ MetaHas(c.after.Meta, metaKeyCountOriginal)
               /\ c.after.Meta.kv[metaKeyCountOriginal] = old
               /\ c.after.Reason = CapReason(old, new)
               /\ MetaHas(c.after.Meta, metaKeyReasonHistory)
               /\ ReasonHistory(c.after) =
                     ReasonHistory(c.before) \o NonEmpty(<<c.before.Reason>>)
               /\ OtherMeta(c.after.Meta) = OtherMeta(c.before.Meta)
          ELSE c.after = c.before

\* C19: on a canonicalized action with Count # -1 and bounds min <= max,
\* CapCount leaves Count at the clamp of the old Count into [min, max]; when
\* the clamp changed the value, and only then, Meta[capped] is set to true,
\* Meta[original_count] to the Count before the clamp, and a clamp reason is
\* pushed, the previous non-empty Reason going to the end of the history;
\* when the old Count was within the bounds, Count, Reason and Meta are as
\* before.
C19_CapCountClamps ==
    \A i \in DOMAIN trace :
        ( /\ trace[i].op = "CapCount"
          /\ ~trace[i].before.Meta.nil
          /\ trace[i].before.Count # MetaValueDryRunCount
          /\ trace[i].min <= trace[i].max ) => CapCountEffect(i)

\* C19 witness: CapCount lowered the Count of a canonicalized action that
\* carried a Reason.
C19_Witness ==
    /\ Len(trace) = 2
    /\ trace[1].op = "Canonicalize"
    /\ trace[2].op = "CapCount"
    /\ trace[2].min <= trace[2].max
    /\ trace[2].before.Count > trace[2].max
    /\ trace[2].before.Reason = "scale"
    /\ act.Count = trace[2].max
    /\ ReasonHistory(act) = <<"scale">>

-----------------------------------------------------------------------------
(* Further properties of the parser.                                       *)

\* The attribute config of the document (Target), empty when nil.
AttrConfig == IF doc.Target.nil THEN <<>> ELSE doc.Target.kv

\* The config block nested in the document's target block, empty when the
\* document has no such block.
BlockConfig ==
    LET tb == Lookup(doc.Policy, keyTarget)
    IN IF IsBlock(tb) /\ IsBlock(Lookup(tb.l[1], "config"))
       THEN Lookup(tb.l[1], "config").l[1].m
       ELSE <<>>

\* C13: the parsed Target config is the attribute config overlaid by the
\* nested target.config block: it has the keys of both, a key of the block
\* holds the block's value as a string, and any other key holds the
\* attribute's value.
C13_TargetConfigOverlay ==
    (vpc = "parsed" /\ ~parsed.Target.nil) =>
        LET cfg == parsed.Target.Config.kv
        IN /\ ~parsed.Target.Config.nil
           /\ DOMAIN cfg = (DOMAIN AttrConfig) \cup (DOMAIN BlockConfig)
           /\ \A k \in DOMAIN BlockConfig : cfg[k] = Sprintv(BlockConfig[k])
           /\ \A k \in (DOMAIN AttrConfig) \ (DOMAIN BlockConfig) :
                 cfg[k] = AttrConfig[k]

\* C13 witness: a document with both sources parsed: Job comes from the
\* attributes, Count from the block, and Group, set in both, from the block.
C13_Witness ==
    /\ vpc = "parsed"
    /\ DOMAIN AttrConfig = {"Job", "Group"}
    /\ DOMAIN BlockConfig = {"Group", "Count"}
    /\ ~parsed.Target.nil
    /\ parsed.Target.Config.kv = [Job |-> "example", Group |-> "web", Count |-> "3"]

-----------------------------------------------------------------------------
(* Further properties of the agent loop.                                   *)

\* The loop takes the evaluation e from the channel in this step.
Receives(e) ==
    /\ pc = "select"
    /\ policyEvalCh # <<>>
    /\ Head(policyEvalCh) = e
    /\ policyEvalCh' = Tail(policyEvalCh)

\* C14: a nil evaluation, or one whose Policy is nil, taken from the channel
\* is dropped: no check is evaluated (no plugin is called, nothing is
\* returned or collected), and the loop does not end but is at its select
\* again, where it receives the next events.
C14_NilEvaluationDropped ==
    [][\A e \in {NilEval, Evaluation(NilPolicy)} :
          Receives(e) =>
              /\ pc' = "select"
              /\ UNCHANGED <<policyEval, ci, actions, checkVars, stopCalls>>]_vars

\* C14 witness: after dropping an evaluation the loop has received a later
\* one and a check of its policy has returned an action.
C14_Witness ==
    /\ dropped >= 1
    /\ pc = "return"
    /\ ret # <<>>

\* C15: once the context is cancelled the loop does not start evaluating a
\* further evaluation, buffered or not, and Run returns only after the health
\* server has been stopped and the plugins killed.
C15_NoEvaluationAfterCancel ==
    [][/\ (ctxDone /\ pc = "select") => pc' # "Dispense(target)"
       /\ pc' = "stopped" =>
             \A c \in {"healthServer.stop", "KillPlugins"} :
                 \E i \in DOMAIN stopCalls' : stopCalls'[i] = c]_vars

\* C16: the checks of one policy are evaluated independently within one
\* evaluation: when a check that failed (a dispense, Status, Query or Run
\* failed, or the target was not ready) returns, it has yielded no action,
\* and the loop goes on with the next check of the policy, or is back at its
\* select after the last one; it does not end.
C16_FailedCheckDoesNotStopOthers ==
    [][(pc = "return" /\ CheckFailed /\ pc' # pc) =>
          /\ ret = <<>>
          /\ IF ci < Len(policyEval.v.Checks)
             THEN /\ pc' = "Dispense(target)"
                  /\ ci' = ci + 1
                  /\ policyEval' = policyEval
                  /\ actions' = actions
             ELSE pc' = "select"]_vars

\* C16 witness: the first check of a policy failed, and the
\* second check ran to its end and returned an action.
C16_Witness ==
    /\ pc = "return"
    /\ ci = 2
    /\ failedChecks = {1}
    /\ AllSucceeded
    /\ ret # <<>>

\* C17: evaluating a check never crashes: for every policy the parser
\* produces from a valid document, a check without strategy and a policy
\* without target included, handlePolicyCheck completes and returns its
\* actions.
C17_CheckNeverCrashes == pc # "panic"

\* The evaluations of a policy that has no checks.
CheckLessEvaluations ==
    {e \in Evaluations : ~Dropped(e) /\ e.Policy.v.Checks = <<>>}

\* C18: a policy without checks still has its limits enforced: an evaluation
\* of such a policy whose target's count is outside [Min, Max] yields a
\* corrective action.  The count is known from Status only, so the handling
\* of the evaluation is not over, the loop back at its select, with no call
\* made to the target and no action collected.
C18_CheckLessPolicyEnforced ==
    [][\A e \in CheckLessEvaluations :
          Receives(e) => ~(pc' = "select" /\ calls' = <<>> /\ actions' = <<>>)]_vars

\* C20: a plugin call (Status, Query or Run) that never returns stalls only
\* the check that made it: while it hangs, the loop can still receive the
\* evaluations waiting in the channel, and after a cancellation it can
\* still shut down.
C20_HungCallStallsOnlyItsCheck ==
    hung =>
        /\ policyEvalCh # <<>> => ENABLED Receive
        /\ ctxDone => (pc = "stopped" \/ ENABLED Shutdown)

-----------------------------------------------------------------------------
(* Dry-run marking.                                                        *)

\* The positions of the SetDryRun calls in the trace.
DryRunCalls == {i \in DOMAIN trace : trace[i].op = "SetDryRun"}

FirstDryRun == CHOOSE i \in DryRunCalls : \A j \in DryRunCalls : i <= j

\* C21: dry-run marking is irreversible and keeps the intended count: after
\* any sequence of Canonicalize, CapCount and SetDryRun calls on a
\* canonicalized action, with at least one SetDryRun among them, Count is -1,
\* Meta[dry_run] is true and Meta[dry_run_count] is the Count the action held
\* right before the first SetDryRun; no later call overwrites it, with the
\* sentinel -1 in particular.
C21_DryRunKeepsIntendedCount ==
    ( /\ \A i \in DOMAIN trace :
            trace[i].op \in {"Canonicalize", "CapCount", "SetDryRun"}
      /\ DryRunCalls # {}
      /\ ~trace[FirstDryRun].before.Meta.nil ) =>
        /\ act.Count = MetaValueDryRunCount
        /\ MetaHas(act.Meta, metaKeyDryRun)
        /\ act.Meta.kv[metaKeyDryRun] = TRUE
        /\ MetaHas(act.Meta, metaKeyDryRunCount)
        /\ act.Meta.kv[metaKeyDryRunCount] = trace[FirstDryRun].before.Count

=============================================================================
